---- MODULE Spec2Model ----
(***************************************************************************)
(* State-machine model of src/main.py: the questionnaire handlers (start,  *)
(* handle_message, send_application_to_moderators) and the moderation      *)
(* handlers (handle_moderator_callback, handle_accept, handle_reject,      *)
(* handle_moderator_message).                                              *)
(*                                                                         *)
(* Python str values are sequences of one-character strings, dicts are     *)
(* functions whose DOMAIN is the set of keys present.  Every awaited       *)
(* Telegram API call may raise; the parameter f of an action is the set of *)
(* positions (1 = first call the handler makes, ...) of the calls that     *)
(* raise.  An exception that no try block catches ends the handler with    *)
(* the assignments made so far kept (the library logs it and goes on).     *)
(***************************************************************************)
EXTENDS Integers, Sequences, FiniteSets, TLC

VARIABLES
    MOD_CHAT_ID,  \* os.getenv("MOD_CHAT_ID"): <<>> when unset, else the id's text
    user_data,    \* context.user_data of every user: a dict per user id
    bot_data,     \* context.bot_data: a dict, key PENDING_REASON_KEY once created
    out,          \* the API calls made by the handler that ran last, in order
    last,         \* the update that handler was given, and whether it raised
    hist,         \* per user, history of the session since the last /start
    mod_hist,     \* per user, history of the reject presses handled for them
    nEvents       \* number of updates handled so far

vars == <<MOD_CHAT_ID, user_data, bot_data, out, last, hist, mod_hist, nEvents>>

----------------------------------------------------------------------------
(* Bounds of the model *)

MaxEvents  == 4   \* updates handled in one behaviour of Spec
MaxEventsQ == 6   \* updates handled in one behaviour of SpecQ
MaxEventsI == 3   \* updates handled in one behaviour of SpecI
MaxCount  == 2    \* the dispatch counters of hist saturate here

(* User ids (a user may apply and may moderate) and the message ids of the  *)
(* moderation records.                                                     *)
Users  == {9, 10}
MsgIds == {1, 2}

(* Chat ids. A private chat has the id of its user. *)
ModChat   == 500
OtherChat == 501

(* Number of questions; next_question = None once all are answered. *)
N    == 4
None == 0

AGE_KEY            == "age"
EXPERIENCE_KEY     == "experience"
FINANCE_KEY        == "finance"
SOURCE_KEY         == "source"
PENDING_REASON_KEY == "pending_reason"

(* The key each question's answer is stored under, and the value each     *)
(* branch of handle_message assigns to next_question.                      *)
AnswerKeys_finance_twice == <<AGE_KEY, EXPERIENCE_KEY, FINANCE_KEY, FINANCE_KEY>>
AnswerKeys == <<AGE_KEY, EXPERIENCE_KEY, FINANCE_KEY, SOURCE_KEY>>

NextQuestion_back == <<2, 1, 4, None>>
NextQuestion_past == <<2, 3, 5, None>>
NextQuestion == <<2, 3, 4, None>>

----------------------------------------------------------------------------
(* Python dict *)

EmptyDict == [k \in {} |-> 0]

Get(d, k, default) == IF k \in DOMAIN d THEN d[k] ELSE default

Put(d, k, v) == [x \in (DOMAIN d) \cup {k} |-> IF x = k THEN v ELSE d[x]]

Pop_keeps(d, k) == d
Pop_all(d, k) == EmptyDict
Pop(d, k) == [x \in (DOMAIN d) \ {k} |-> d[x]]

clear_nothing(d) == d
clear(d) == EmptyDict

----------------------------------------------------------------------------
(* Python str: strip, split(sep, 1), int(), str() *)

IsSpace(c) == c \in {" ", "\t", "\n"}

RECURSIVE lstrip(_)
lstrip(s) == IF s # <<>> /\ IsSpace(Head(s)) THEN lstrip(Tail(s)) ELSE s

RECURSIVE rstrip(_)
rstrip(s) ==
    IF s # <<>> /\ IsSpace(s[Len(s)]) THEN rstrip(SubSeq(s, 1, Len(s) - 1)) ELSE s

strip_nothing(s) == s
strip(s) == rstrip(lstrip(s))

(* Position of the first occurrence of c in s, 0 when there is none. *)
find(s, c) ==
    IF \E i \in 1..Len(s) : s[i] = c
    THEN CHOOSE i \in 1..Len(s) : s[i] = c /\ \A j \in 1..(i - 1) : s[j] # c
    ELSE 0

(* s.split(sep, 1): one part when sep does not occur, else two. *)
split(s, sep) ==
    LET i == find(s, sep)
    IN  IF i = 0 THEN <<s>> ELSE <<SubSeq(s, 1, i - 1), SubSeq(s, i + 1, Len(s))>>

Digits == <<"0", "1", "2", "3", "4", "5", "6", "7", "8", "9">>

IsDigit(c) == \E i \in 1..10 : Digits[i] = c

DigitVal(c) == (CHOOSE i \in 1..10 : Digits[i] = c) - 1

Unsigned(s) == IF s # <<>> /\ Head(s) \in {"+", "-"} THEN Tail(s) ELSE s

(* int(s) raises ValueError unless IsIntStr(s). *)
IsIntStr(s) ==
    LET b == Unsigned(strip(s))
    IN  b # <<>> /\ \A i \in 1..Len(b) : IsDigit(b[i])

RECURSIVE DigitsValue(_)
DigitsValue(b) ==
    IF b = <<>> THEN 0
    ELSE 10 * DigitsValue(SubSeq(b, 1, Len(b) - 1)) + DigitVal(b[Len(b)])

int(s) ==
    LET t == strip(s)
    IN  IF t # <<>> /\ Head(t) = "-" THEN 0 - DigitsValue(Unsigned(t))
        ELSE DigitsValue(Unsigned(t))

RECURSIVE NatStr(_)
NatStr(n) ==
    IF n < 10 THEN <<Digits[n + 1]>> ELSE NatStr(n \div 10) \o <<Digits[(n % 10) + 1]>>

str(n) == IF n < 0 THEN <<"-">> \o NatStr(0 - n) ELSE NatStr(n)

----------------------------------------------------------------------------
(* Updates and API calls *)

(* One awaited Telegram API call and whether it returned (ok) or raised. *)
Call(op, chat, text, arg, buttons, mid, ok) ==
    [op |-> op, chat |-> chat, text |-> text, arg |-> arg,
     buttons |-> buttons, mid |-> mid, ok |-> ok]

(* message.reply_text(text) in the private chat of user u. *)
Reply(u, text, ok) == Call("send_message", u, text, <<>>, <<>>, 0, ok)

(* query.message / update.message of an update: None is NoMsg. *)
NoChat == 0
NoMsg  == [chat |-> NoChat, message_id |-> 0]

(* The update a handler was given.  raised: an exception left the handler. *)
(* replay: the update repeats the one before it, which did not raise.      *)
(* submitted_before                                                        *)
(* and shadow record the state the handler found: whether the sender's     *)
(* session was submitted, and the applicants whose pending slot of this    *)
(* moderator was overwritten before the reason text arrived.               *)
Update(kind, user, text, msg, raised, submitted_before, shadowed) ==
    [kind |-> kind, user |-> user, text |-> text, msg |-> msg,
     raised |-> raised,
     replay |-> /\ last.kind = kind /\ last.user = user
                /\ last.text = text /\ last.msg = msg /\ ~last.raised,
     submitted_before |-> submitted_before, shadow |-> shadowed]

(* Texts users type: with and without surrounding whitespace. *)
Texts == { <<" ", "a", " ">>, <<"b">> }

Prompts == <<"q1", "q2", "q3", "q4">>

Min(a, b) == IF a < b THEN a ELSE b

AllOk(calls) == \A i \in 1..Len(calls) : calls[i].ok

IsDispatch(c) == c.op = "send_message" /\ c.text = "application"

IsRejection(c) == c.op = "send_message" /\ c.text = "rejected"

IsApproval(c) == c.op = "send_message" /\ c.text = "approved"

Dispatches(calls) == {i \in 1..Len(calls) : IsDispatch(calls[i])}

Rejections(calls) == {i \in 1..Len(calls) : IsRejection(calls[i])}

Approvals(calls) == {i \in 1..Len(calls) : IsApproval(calls[i])}

(* History of a session: clean while the session was begun by a /start     *)
(* whose calls all returned and no call has raised since; inbox, the texts *)
(* recorded as answers while clean; attempts and delivered, the sends of   *)
(* the moderation record made and returned; record, the last record sent.  *)
NewHist ==
    [clean |-> FALSE, inbox |-> <<>>, attempts |-> 0, delivered |-> 0,
     record |-> <<>>]

(* History of a moderator: latest, the applicant of the last reject press  *)
(* handled for them (0: none); overwritten, the applicants of their slots  *)
(* replaced since the last reason text; notified, the rejections sent      *)
(* since that press.                                                       *)
NewModHist == [latest |-> 0, overwritten |-> {}, notified |-> 0]

----------------------------------------------------------------------------
(* Questionnaire *)

already_submitted_never(d) == FALSE
already_submitted(d) == Get(d, "application_submitted", FALSE)

(* /start.  Call 1 is the welcome message, call 2 the first question. *)
start(u, f) ==
    LET greeted == 1 \notin f
        asked   == greeted /\ 2 \notin f
        d       == clear(user_data[u])
    IN  /\ user_data' =
             [user_data EXCEPT ![u] =
                IF asked
                THEN Put(Put(clear(d), "next_question", 1),
                         "application_submitted", FALSE)
                ELSE d]
        /\ out' = IF greeted
                  THEN <<Reply(u, "welcome", TRUE), Reply(u, Prompts[1], asked)>>
                  ELSE <<Reply(u, "welcome", FALSE)>>
        /\ last' = Update("start", u, <<>>, [chat |-> u, message_id |-> 0],
                          ~asked, already_submitted(user_data[u]), {})
        /\ hist' = [hist EXCEPT ![u] = [NewHist EXCEPT !.clean = asked]]
        /\ nEvents' = nEvents + 1
        /\ UNCHANGED <<MOD_CHAT_ID, bot_data, mod_hist>>

(* The HTML text of the moderation record: the applicant id and the four   *)
(* answers, a dash for a missing one.                                      *)
Dash == <<"-">>

ApplicationText(d, u) ==
    <<str(u), Get(d, AGE_KEY, Dash), Get(d, EXPERIENCE_KEY, Dash),
      Get(d, FINANCE_KEY, Dash), Get(d, SOURCE_KEY, Dash)>>

ACCEPT == <<"a", "c", "c", "e", "p", "t">>
REJECT == <<"r", "e", "j", "e", "c", "t">>

Keyboard(u) == <<ACCEPT \o <<":">> \o str(u), REJECT \o <<":">> \o str(u)>>

(* send_application_to_moderators with user_data d.  Call 1 is the send to *)
(* the moderator chat, call 2 the retry-later reply of the except block.   *)
send_application_to_moderators(d, u, f) ==
    IF MOD_CHAT_ID = <<>>
    THEN [out |-> <<>>, raised |-> FALSE]
    ELSE IF 1 \notin f
    THEN [out |-> <<Call("send_message", int(MOD_CHAT_ID), "application",
                         ApplicationText(d, u), Keyboard(u), 0, TRUE)>>,
          raised |-> FALSE]
    ELSE [out |-> <<Call("send_message", int(MOD_CHAT_ID), "application",
                         ApplicationText(d, u), Keyboard(u), 0, FALSE),
                    Reply(u, "retry_later", 2 \notin f)>>,
          raised |-> 2 \in f]

(* The question expected next: 1 when next_question is not set. *)
question_number_unset(d) == Get(d, "next_question", None)
question_number(d) == Get(d, "next_question", 1)

(* handle_message with user_data d: the new user_data, the calls made and  *)
(* whether an exception left the handler.                                  *)
MessageResult(d, u, text, has_message, f) ==
    LET q == question_number(d)
    IN  IF ~has_message
        THEN [ud |-> d, out |-> <<>>, raised |-> FALSE]
        ELSE IF already_submitted(d)
        THEN [ud |-> d, out |-> <<Reply(u, "reminder", 1 \notin f)>>,
              raised |-> 1 \in f]
        ELSE IF q \in 1..(N - 1)
        THEN [ud |-> Put(Put(d, AnswerKeys[q], strip(text)),
                         "next_question", NextQuestion[q]),
              out |-> <<Reply(u, Prompts[q + 1], 1 \notin f)>>,
              raised |-> 1 \in f]
        ELSE IF q = N
        THEN LET d1 == Put(d, AnswerKeys[N], strip(text))
                 r  == send_application_to_moderators(d1, u, f)
             IN  [ud |-> IF r.raised THEN d1
                         ELSE Put(Put(d1, "next_question", NextQuestion[N]),
                                  "application_submitted", TRUE),
                  out |-> r.out, raised |-> r.raised]
        ELSE [ud |-> d, out |-> <<Reply(u, "restart", 1 \notin f)>>,
              raised |-> 1 \in f]

handle_message(u, text, has_message, f) ==
    \E r \in {MessageResult(user_data[u], u, text, has_message, f)} :
    LET d        == user_data[u]
        answered == /\ has_message
                    /\ ~Get(d, "application_submitted", FALSE)
                    /\ question_number(d) \in 1..N
        h        == hist[u]
        clean    == h.clean /\ ~r.raised /\ AllOk(r.out)
        sent     == Dispatches(r.out)
    IN  /\ user_data' = [user_data EXCEPT ![u] = r.ud]
        /\ out' = r.out
        /\ last' = Update("message", u, text,
                          IF has_message THEN [chat |-> u, message_id |-> 0]
                          ELSE NoMsg,
                          r.raised, Get(d, "application_submitted", FALSE), {})
        /\ hist' =
             [hist EXCEPT ![u] =
                [clean     |-> clean,
                 inbox     |-> IF ~clean THEN <<>>
                               ELSE IF answered THEN Append(h.inbox, text)
                               ELSE h.inbox,
                 attempts  |-> Min(h.attempts + Cardinality(sent), MaxCount),
                 delivered |-> Min(h.delivered
                                     + Cardinality({i \in sent : r.out[i].ok}),
                                   MaxCount),
                 record    |-> IF sent = {} THEN h.record
                               ELSE r.out[CHOOSE i \in sent : TRUE].arg]]
        /\ nEvents' = nEvents + 1
        /\ UNCHANGED <<MOD_CHAT_ID, bot_data, mod_hist>>

----------------------------------------------------------------------------
(* Moderation *)

Note(text, chat, mid, user_id, ok) ==
    Call("edit_message_text", chat, text, <<str(user_id)>>, <<>>, mid, ok)

Pending == Get(bot_data, PENDING_REASON_KEY, EmptyDict)

(* handle_accept, after query.answer().  Call 2 is the invitation sent to  *)
(* the applicant, call 3 the edit of the record; both sit in try blocks.   *)
handle_accept_silent(msg, f, user_id) ==
    [bd     |-> bot_data,
     out    |-> <<Note("accepted_note", msg.chat, msg.message_id, user_id,
                       3 \notin f)>>,
     raised |-> FALSE]
handle_accept(msg, f, user_id) ==
    [bd     |-> bot_data,
     out    |-> <<Call("send_message", user_id, "approved", <<>>, <<>>, 0,
                       2 \notin f),
                  Note("accepted_note", msg.chat, msg.message_id, user_id,
                       3 \notin f)>>,
     raised |-> FALSE]

(* bot_data.setdefault(PENDING_REASON_KEY, {})[moderator_id] = slot *)
Store_first(m, slot) ==
    Put(bot_data, PENDING_REASON_KEY,
        IF m \in DOMAIN Pending THEN Pending ELSE Put(Pending, m, slot))
Store(m, slot) == Put(bot_data, PENDING_REASON_KEY, Put(Pending, m, slot))

(* handle_reject, after query.answer().  The slot is stored before call 2, *)
(* the edit that asks for the reason, which no try block guards.  With no  *)
(* query.message the right-hand side raises before anything is stored.     *)
handle_reject(m, msg, f, user_id) ==
    IF msg = NoMsg
    THEN [bd |-> bot_data, out |-> <<>>, raised |-> TRUE]
    ELSE [bd     |-> Store(m, [user_id |-> user_id,
                               original_message_id |-> msg.message_id]),
          out    |-> <<Note("reject_prompt", msg.chat, msg.message_id, user_id,
                            2 \notin f)>>,
          raised |-> 2 \in f]

Ignored == [bd |-> bot_data, out |-> <<>>, raised |-> FALSE]

(* The branches on action at the end of handle_moderator_callback. *)
Dispatch_else_accept(action, m, msg, f, user_id) ==
    IF action = REJECT THEN handle_reject(m, msg, f, user_id)
    ELSE handle_accept(msg, f, user_id)
Dispatch(action, m, msg, f, user_id) ==
    IF action = ACCEPT THEN handle_accept(msg, f, user_id)
    ELSE IF action = REJECT THEN handle_reject(m, msg, f, user_id)
    ELSE Ignored

(* The check that the press comes from the configured moderator chat. *)
Unauthorized_never(msg) == FALSE
Unauthorized(msg) == msg # NoMsg /\ str(msg.chat) # MOD_CHAT_ID

(* handle_moderator_callback after query.answer() has returned. *)
CallbackResult(m, data, msg, f) ==
    LET parts == split(data, ":")
    IN  IF Len(parts) # 2 THEN Ignored
        ELSE IF MOD_CHAT_ID = <<>> THEN Ignored
        ELSE IF Unauthorized(msg) THEN Ignored
        ELSE IF ~IsIntStr(parts[2]) THEN Ignored
        ELSE Dispatch(parts[1], m, msg, f, int(parts[2]))

Answer(ok) == Call("answer", NoChat, "", <<>>, <<>>, 0, ok)

(* The applicant a reject press names, when the press comes from the       *)
(* configured moderator chat and was acknowledged: 0 otherwise.            *)
RejectPressed(data, msg, f) ==
    IF /\ 1 \notin f
       /\ MOD_CHAT_ID # <<>>
       /\ msg.chat = ModChat
       /\ \E x \in Users : data = REJECT \o <<":">> \o str(x)
    THEN CHOOSE x \in Users : data = REJECT \o <<":">> \o str(x)
    ELSE 0

(* A button press by user m.  Call 1 is query.answer(). *)
handle_moderator_callback(m, data, msg, f) ==
    \E r \in {IF 1 \in f
              THEN [bd |-> bot_data, out |-> <<>>, raised |-> TRUE]
              ELSE CallbackResult(m, data, msg, f)},
       x \in {RejectPressed(data, msg, f)} :
        /\ bot_data' = r.bd
        /\ out' = <<Answer(1 \notin f)>> \o r.out
        /\ last' = Update("callback", m, data, msg, r.raised, FALSE, {})
        /\ mod_hist' =
             IF x = 0 THEN mod_hist
             ELSE [mod_hist EXCEPT ![m] =
                     [latest      |-> x,
                      overwritten |-> IF m \in DOMAIN Pending
                                      THEN @.overwritten \cup {Pending[m].user_id}
                                      ELSE {},
                      notified    |-> 0]]
        /\ nEvents' = nEvents + 1
        /\ UNCHANGED <<MOD_CHAT_ID, user_data, hist>>

(* The handler is registered only when int(MOD_CHAT_ID) is not 0. *)
ModeratorHandlerRegistered == MOD_CHAT_ID # <<>> /\ int(MOD_CHAT_ID) # 0

(* handle_moderator_message with pending slot p of moderator m.  Call 1 is *)
(* the reason sent to the applicant, call 2 the edit of the record; both   *)
(* sit in try blocks, so no exception leaves the handler.                  *)
ReasonResult_unguarded(m, p, text, f) ==
    IF 1 \in f
    THEN [bd  |-> bot_data,
          out |-> <<Call("send_message", p.user_id, "rejected", <<strip(text)>>,
                         <<>>, 0, FALSE)>>,
          raised |-> TRUE]
    ELSE [bd  |-> Put(bot_data, PENDING_REASON_KEY, Pop(Pending, m)),
          out |-> <<Call("send_message", p.user_id, "rejected", <<strip(text)>>,
                         <<>>, 0, TRUE),
                    Note("rejected_note", int(MOD_CHAT_ID), p.original_message_id,
                         p.user_id, 2 \notin f)>>,
          raised |-> FALSE]
ReasonResult(m, p, text, f) ==
    [bd  |-> Put(bot_data, PENDING_REASON_KEY, Pop(Pending, m)),
     out |-> <<Call("send_message", p.user_id, "rejected", <<strip(text)>>,
                    <<>>, 0, 1 \notin f),
               Note("rejected_note", int(MOD_CHAT_ID), p.original_message_id,
                    p.user_id, 2 \notin f)>>,
     raised |-> FALSE]

(* bot_data.get(PENDING_REASON_KEY, {}).get(moderator_id): the slot of     *)
(* moderator m, None (NoSlot) when there is none.                          *)
NoSlot == [user_id |-> 0, original_message_id |-> 0]

pending_any(m) ==
    IF DOMAIN Pending = {} THEN NoSlot
    ELSE Pending[CHOOSE k \in DOMAIN Pending : TRUE]
pending(m) == Get(Pending, m, NoSlot)

(* A text message by user m in the moderator chat. *)
handle_moderator_message_reopens(m, text, f) ==
    \E r \in {IF pending(m) = NoSlot
              THEN [bd |-> bot_data, out |-> <<>>, raised |-> FALSE]
              ELSE ReasonResult(m, pending(m), text, f)} :
        /\ ModeratorHandlerRegistered
        /\ bot_data' = r.bd
        /\ out' = r.out
        /\ last' = Update("mod_message", m, text,
                          [chat |-> int(MOD_CHAT_ID), message_id |-> 0],
                          r.raised, FALSE, mod_hist[m].overwritten)
        /\ user_data' = IF pending(m) = NoSlot THEN user_data
                        ELSE [user_data EXCEPT ![pending(m).user_id] = clear(@)]
        /\ nEvents' = nEvents + 1
        /\ UNCHANGED <<MOD_CHAT_ID, hist, mod_hist>>
handle_moderator_message(m, text, f) ==
    \E r \in {IF pending(m) = NoSlot
              THEN [bd |-> bot_data, out |-> <<>>, raised |-> FALSE]
              ELSE ReasonResult(m, pending(m), text, f)} :
        /\ ModeratorHandlerRegistered
        /\ bot_data' = r.bd
        /\ out' = r.out
        /\ last' = Update("mod_message", m, text,
                          [chat |-> int(MOD_CHAT_ID), message_id |-> 0],
                          r.raised, FALSE, mod_hist[m].overwritten)
        /\ mod_hist' =
             [mod_hist EXCEPT ![m] =
                [latest      |-> @.latest,
                 overwritten |-> IF m \in DOMAIN Pending THEN {}
                                 ELSE @.overwritten,
                 notified    |-> Min(@.notified + Cardinality(Rejections(r.out)),
                                     MaxCount)]]
        /\ nEvents' = nEvents + 1
        /\ UNCHANGED <<MOD_CHAT_ID, user_data, hist>>

----------------------------------------------------------------------------
(* Specification *)

(* callback_data of a button press: the buttons of the records, and data   *)
(* with no separator, no integer id, or an unknown action.                 *)
Accepts == {ACCEPT \o <<":">> \o str(u) : u \in Users}
Rejects == {REJECT \o <<":">> \o str(u) : u \in Users}

WellFormed == Accepts \cup Rejects

Malformed == {ACCEPT, ACCEPT \o <<":", "x">>, <<"b", "a", "n", ":", "9">>}

(* query.message of a button press: a record of the moderator chat, a      *)
(* message of another chat, or none (a button of an inline message).       *)
ModMessages == [chat : {ModChat}, message_id : MsgIds]
OtherMessage == [chat |-> OtherChat, message_id |-> 1]

(* The button presses handled: data, query.message and the raising calls.  *)
(* Call 1 is made for every press; handle_accept makes calls 2 and 3,      *)
(* handle_reject call 2 unless query.message is None.                      *)
Presses ==
    (Accepts \X (ModMessages \cup {NoMsg}) \X {{}, {1}, {2}, {3}, {2, 3}})
      \cup (Rejects \X ModMessages \X {{}, {1}, {2}})
      \cup (Rejects \X {NoMsg} \X {{}, {1}})
      \cup (WellFormed \X {OtherMessage} \X {{}, {1}})
      \cup (Malformed \X ModMessages \X {{}, {1}})

(* The text messages handled by handle_message: update.message is None for *)
(* an edited message.                                                      *)
Incoming == {<<TRUE, t>> : t \in Texts} \cup {<<FALSE, <<>>>>}

(* The sets of raising calls of each handler: a call is reached only when  *)
(* the calls before it returned or were made in a try block.               *)
StartFailures    == {{}, {1}, {2}}
MessageFailures  == {{}, {1}, {1, 2}}
ReasonFailures   == {{}, {1}, {2}, {1, 2}}

Init ==
    /\ MOD_CHAT_ID \in {<<>>, str(ModChat)}
    /\ user_data = [u \in Users |-> EmptyDict]
    /\ bot_data = EmptyDict
    /\ out = <<>>
    /\ last = [kind |-> "init", user |-> 0, text |-> <<>>, msg |-> NoMsg,
               raised |-> FALSE, replay |-> FALSE, submitted_before |-> FALSE,
               shadow |-> {}]
    /\ hist = [u \in Users |-> NewHist]
    /\ mod_hist = [u \in Users |-> NewModHist]
    /\ nEvents = 0

(* The moderation handlers on every input and the questionnaire handlers   *)
(* on one text with every call returning, for MaxEvents updates.           *)
Next ==
    \/ nEvents < MaxEvents /\ start(9, {})
    \/ nEvents < MaxEvents /\ handle_message(9, <<"b">>, TRUE, {})
    \/ \E m \in Users, p \in Presses :
          nEvents < MaxEvents /\ handle_moderator_callback(m, p[1], p[2], p[3])
    \/ \E m \in Users, text \in Texts, f \in ReasonFailures :
          nEvents < MaxEvents /\ handle_moderator_message(m, text, f)

Spec == Init /\ [][Next]_vars

(* The questionnaire handlers on every input and the moderation handlers   *)
(* on the buttons of a record with every call returning, for MaxEventsQ    *)
(* updates.                                                                *)
NextQ ==
    \/ \E u \in Users, f \in StartFailures :
          nEvents < MaxEventsQ /\ start(u, f)
    \/ \E u \in Users, m \in Incoming, f \in MessageFailures :
          nEvents < MaxEventsQ /\ handle_message(u, m[2], m[1], f)
    \/ \E p \in WellFormed :
          /\ nEvents < MaxEventsQ
          /\ handle_moderator_callback(10, p, [chat |-> ModChat, message_id |-> 1],
                                       {})
    \/ nEvents < MaxEventsQ /\ handle_moderator_message(10, <<"b">>, {})

SpecQ == Init /\ [][NextQ]_vars

(* Every handler on every input, for MaxEventsI updates. *)
NextI ==
    \/ \E u \in Users, f \in StartFailures :
          nEvents < MaxEventsI /\ start(u, f)
    \/ \E u \in Users, m \in Incoming, f \in MessageFailures :
          nEvents < MaxEventsI /\ handle_message(u, m[2], m[1], f)
    \/ \E m \in Users, p \in Presses :
          nEvents < MaxEventsI /\ handle_moderator_callback(m, p[1], p[2], p[3])
    \/ \E m \in Users, text \in Texts, f \in ReasonFailures :
          nEvents < MaxEventsI /\ handle_moderator_message(m, text, f)

SpecI == Init /\ [][NextI]_vars

----------------------------------------------------------------------------
(* The session of the specification, read off user_data *)

Session(u) == user_data[u]

(* submitted: the flag is present and true. *)
Submitted(d) ==
    "application_submitted" \in DOMAIN d /\ d["application_submitted"] = TRUE

(* nextQuestion: an absent cursor reads as 1, None stands for N + 1. *)
Cursor(d) ==
    IF "next_question" \notin DOMAIN d THEN 1
    ELSE IF d["next_question"] = None THEN N + 1
    ELSE d["next_question"]

(* The question indices with a recorded answer. *)
Answered(d) == {k \in 1..N : <<AGE_KEY, EXPERIENCE_KEY, FINANCE_KEY, SOURCE_KEY>>[k] \in DOMAIN d}

SessionKeys ==
    {AGE_KEY, EXPERIENCE_KEY, FINANCE_KEY, SOURCE_KEY,
     "next_question", "application_submitted"}

Configured == MOD_CHAT_ID # <<>>

(* t trimmed of surrounding whitespace: the part t[i..j] that neither      *)
(* starts nor ends with whitespace and has only whitespace around it.      *)
White == {" ", "\t", "\n"}

Trimmed(t) ==
    LET p == CHOOSE p \in (1..(Len(t) + 1)) \X (0..Len(t)) :
                 /\ p[1] <= p[2] + 1
                 /\ \A i \in 1..(p[1] - 1) : t[i] \in White
                 /\ \A i \in (p[2] + 1)..Len(t) : t[i] \in White
                 /\ p[1] <= p[2] => (t[p[1]] \notin White /\ t[p[2]] \notin White)
    IN  SubSeq(t, p[1], p[2])

----------------------------------------------------------------------------
(* C1: in every reachable state, a session whose submitted flag is true    *)
(* holds exactly N recorded answers, one for each question index 1..N.     *)
SubmittedHasAllAnswers ==
    \A u \in Users :
        Submitted(Session(u)) =>
            /\ Answered(Session(u)) = 1..N
            /\ DOMAIN Session(u) = SessionKeys

(* A session submitted at the second send of its record, the first send   *)
(* and the retry-later reply having raised.                                *)
SubmittedAtSecondSend ==
    \E u \in Users :
        /\ Submitted(Session(u))
        /\ hist[u].attempts = 2
        /\ last.kind = "callback"

(* C2: between two /start commands of an applicant the cursor never moves  *)
(* backwards, whatever update is handled, and it is always in 1..N+1.      *)
CursorMonotone ==
    /\ [](\A u \in Users : Cursor(Session(u)) \in 1..(N + 1))
    /\ [][\A u \in Users :
            ~(last'.kind = "start" /\ last'.user = u)
                => Cursor(user_data'[u]) >= Cursor(user_data[u])]_vars

(* The cursor at its terminal value, a moderator update handled last. *)
CursorTerminal ==
    \E u \in Users :
        /\ Cursor(Session(u)) = N + 1
        /\ last.kind = "mod_message"

(* C3: N text messages after a /start, every call returning, leave the     *)
(* session submitted, with the moderation record sent exactly once and     *)
(* holding the N answers, the k-th the k-th text stripped.                 *)
FullRunDispatchesOnce ==
    \A u \in Users :
        (Configured /\ hist[u].clean /\ Len(hist[u].inbox) = N) =>
            /\ Submitted(Session(u))
            /\ hist[u].attempts = 1
            /\ hist[u].delivered = 1
            /\ hist[u].record =
                 <<str(u)>> \o [k \in 1..N |-> Trimmed(hist[u].inbox[k])]
            /\ \A k \in 1..N :
                 Session(u)[<<AGE_KEY, EXPERIENCE_KEY, FINANCE_KEY, SOURCE_KEY>>[k]]
                   = Trimmed(hist[u].inbox[k])

(* Such a run, its texts differing and one of them with whitespace. *)
FullRunDone ==
    \E u \in Users :
        /\ Configured /\ hist[u].clean
        /\ hist[u].inbox = << <<" ", "a", " ">>, <<"b">>, <<"b">>, <<" ", "a", " ">> >>
        /\ hist[u].record = << str(u), <<"a">>, <<"b">>, <<"b">>, <<"a">> >>

(* C4: a text message of an applicant whose session is submitted changes   *)
(* no session and no pending slot, and the only call made is the reminder  *)
(* to that applicant.                                                      *)
MessageAfterSubmission ==
    [][\A u \in Users :
         (/\ last'.kind = "message" /\ last'.user = u /\ last'.msg # NoMsg
          /\ Submitted(user_data[u]))
            => /\ user_data' = user_data
               /\ bot_data' = bot_data
               /\ Len(out') = 1
               /\ out'[1].op = "send_message"
               /\ out'[1].chat = u
               /\ out'[1].text = "reminder"
               /\ Dispatches(out') = {}]_vars

(* The reminder sent. *)
ReminderSent ==
    /\ last.kind = "message" /\ last.submitted_before
    /\ Len(out) = 1 /\ out[1].text = "reminder" /\ out[1].ok
    /\ Submitted(Session(last.user))

(* C5: after a /start is handled the session of its sender has no answer,  *)
(* its cursor reads 1 and it is not submitted, whatever it held before.    *)
StartResets ==
    \A u \in Users :
        (last.kind = "start" /\ last.user = u) =>
            /\ Answered(Session(u)) = {}
            /\ DOMAIN Session(u) \subseteq {"next_question", "application_submitted"}
            /\ Cursor(Session(u)) = 1
            /\ ~Submitted(Session(u))

(* A /start handled for a submitted session. *)
StartAfterSubmission == last.kind = "start" /\ last.submitted_before

----------------------------------------------------------------------------
(* The correlator of the specification, read off bot_data *)

PendingOf(bd) ==
    IF PENDING_REASON_KEY \in DOMAIN bd THEN bd[PENDING_REASON_KEY] ELSE EmptyDict

(* The callback data of the button action of the record of applicant x. *)
PressOf(action, x) == action \o <<":">> \o str(x)

(* The update l is a button press from the configured moderator chat that  *)
(* was acknowledged, o being the calls made for it.                        *)
FromModChat(l, o) ==
    /\ l.kind = "callback"
    /\ Configured
    /\ l.msg.chat = ModChat
    /\ o[1].op = "answer" /\ o[1].ok

(* No call but the acknowledgement of a press. *)
OnlyAnswered(o) == \A i \in 1..Len(o) : o[i].op = "answer"

(* data has no separator, no integer id or no known action. *)
IsMalformed(data) ==
    LET parts == split(data, ":")
    IN  \/ Len(parts) # 2
        \/ ~IsIntStr(parts[2])
        \/ parts[1] \notin {ACCEPT, REJECT}

(* C6: a reject(X) press of moderator M from the moderator chat leaves X   *)
(* in M's slot; M's next text sends exactly one rejection, to X with that  *)
(* text stripped, and clears the slot; a text of M with no slot sends no   *)
(* rejection, so no press gives rise to more than one.                     *)
ReasonConsumedOnce ==
    /\ [](\A m \in Users : mod_hist[m].notified <= 1)
    /\ [][\A m \in Users, x \in Users :
            (/\ FromModChat(last', out') /\ last'.user = m
             /\ last'.text = PressOf(REJECT, x))
                => /\ m \in DOMAIN PendingOf(bot_data')
                   /\ PendingOf(bot_data')[m].user_id = x]_vars
    /\ [][\A m \in Users :
            (last'.kind = "mod_message" /\ last'.user = m)
                => IF m \in DOMAIN PendingOf(bot_data)
                   THEN /\ Cardinality(Rejections(out')) = 1
                        /\ \A i \in Rejections(out') :
                             /\ out'[i].chat = PendingOf(bot_data)[m].user_id
                             /\ out'[i].arg = <<Trimmed(last'.text)>>
                        /\ m \notin DOMAIN PendingOf(bot_data')
                   ELSE Rejections(out') = {}]_vars

(* A further text of a moderator whose reason was consumed: nothing sent. *)
FurtherTextSilent ==
    /\ last.kind = "mod_message"
    /\ mod_hist[last.user].notified = 1
    /\ mod_hist[last.user].latest # 0
    /\ last.user \notin DOMAIN PendingOf(bot_data)
    /\ out = <<>>

(* C7: an accept(X) press from the moderator chat sends exactly one        *)
(* approval, to X, each time it is handled, whatever was handled before,   *)
(* and changes no pending slot and no session.                             *)
AcceptNotifiesEachTime ==
    [][\A x \in Users :
         (FromModChat(last', out') /\ last'.text = PressOf(ACCEPT, x))
            => /\ Cardinality(Approvals(out')) = 1
               /\ \A i \in Approvals(out') : out'[i].chat = x
               /\ bot_data' = bot_data
               /\ user_data' = user_data]_vars

(* The same accept press handled twice in a row, for an applicant with no  *)
(* session, while a rejection is pending.                                  *)
AcceptReplayed ==
    \E x \in Users :
        /\ FromModChat(last, out) /\ last.text = PressOf(ACCEPT, x)
        /\ last.replay
        /\ Approvals(out) # {}
        /\ Session(x) = EmptyDict
        /\ DOMAIN PendingOf(bot_data) # {}

(* C8: a button press whose origin is not the configured moderator chat,   *)
(* or that carries no message, changes no session and no pending slot and  *)
(* makes no call but its acknowledgement.                                  *)
ForeignPressIgnored ==
    [][(last'.kind = "callback" /\ last'.msg.chat # ModChat)
          => /\ user_data' = user_data
             /\ bot_data' = bot_data
             /\ OnlyAnswered(out')]_vars

(* C9: a press with malformed data changes no session and no pending slot  *)
(* and makes no call but its acknowledgement.                              *)
MalformedPressIgnored ==
    [][(last'.kind = "callback" /\ IsMalformed(last'.text))
          => /\ user_data' = user_data
             /\ bot_data' = bot_data
             /\ OnlyAnswered(out')]_vars

(* A press with an unknown action and an integer id, from the moderator    *)
(* chat, handled while a rejection is pending.                             *)
UnknownActionPressed ==
    /\ FromModChat(last, out)
    /\ last.text = <<"b", "a", "n", ":", "9">>
    /\ DOMAIN PendingOf(bot_data) # {}

(* C10: when moderator M pressed reject for X and then for Y before any    *)
(* text, M's next text sends exactly one rejection, to Y, none to X, and   *)
(* leaves M without a slot; no later text of M sends another.              *)
LatestRejectWins ==
    /\ \A m \in Users :
         (last.kind = "mod_message" /\ last.user = m /\ last.shadow # {})
            => /\ Cardinality(Rejections(out)) = 1
               /\ \A i \in Rejections(out) :
                    /\ out[i].chat = mod_hist[m].latest
                    /\ out[i].arg = <<Trimmed(last.text)>>
               /\ m \notin DOMAIN PendingOf(bot_data)
    /\ \A m \in Users :
         (m \notin DOMAIN PendingOf(bot_data) /\ mod_hist[m].latest # 0)
            => mod_hist[m].notified <= 1

(* M's text after reject(X) then reject(Y), X and Y differing. *)
OverwrittenThenReason ==
    /\ last.kind = "mod_message"
    /\ last.shadow # {}
    /\ mod_hist[last.user].latest \notin last.shadow
    /\ Rejections(out) # {}

----------------------------------------------------------------------------
(* The dispatcher of the specification, read off the calls of a handler *)

(* The update l is a text message of applicant u that carries a message. *)
TextOf(l, u) == l.kind = "message" /\ l.user = u /\ l.msg # NoMsg

(* d is an unsubmitted session whose cursor points at the last question:   *)
(* the next text of its applicant is the N-th answer.                      *)
AwaitsLast(d) == ~Submitted(d) /\ Cursor(d) = N

(* The calls o hold a send of the moderation record that returned. *)
Delivered(o) == \E i \in Dispatches(o) : o[i].ok

(* The calls o hold the retry-later message to applicant u. *)
RetryLaterSent(o, u) ==
    \E i \in 1..Len(o) :
        o[i].op = "send_message" /\ o[i].chat = u /\ o[i].text = "retry_later"

(* C11: whenever the N-th answer of an applicant is handled and the        *)
(* moderation record is not delivered, because the send raised or because  *)
(* no moderator chat is configured, the retry-later message is sent to     *)
(* that applicant.                                                         *)
FailedDispatchReported ==
    [][\A u \in Users :
         (TextOf(last', u) /\ AwaitsLast(user_data[u]) /\ ~Delivered(out'))
            => RetryLaterSent(out', u)]_vars

(* C12: after the N-th answer of an applicant is handled the session is    *)
(* submitted with its cursor at N + 1 and no exception left the handler,   *)
(* whether or not the send of the record or the retry-later reply raised.  *)
FailedDispatchStillSubmits ==
    [][\A u \in Users :
         (TextOf(last', u) /\ AwaitsLast(user_data[u]))
            => /\ Submitted(user_data'[u])
               /\ Cursor(user_data'[u]) = N + 1
               /\ ~last'.raised]_vars

----------------------------------------------------------------------------
(* The outcome notifier of the specification, read off the calls *)

(* The calls o hold the edit that closes the record mid of chat c with the *)
(* decision text for applicant x.                                          *)
RecordEdited(o, text, c, mid, x) ==
    \E i \in 1..Len(o) :
        /\ o[i].op = "edit_message_text" /\ o[i].text = text
        /\ o[i].chat = c /\ o[i].mid = mid /\ o[i].arg = <<str(x)>>

(* Some notification of a decision in o raised. *)
NoticeFailed(o) == \E i \in Rejections(o) \cup Approvals(o) : ~o[i].ok

(* C13: when the rejection sent to the applicant raises, the edit of the   *)
(* record to 'rejected' is still made and the moderator's slot is still    *)
(* cleared; when the approval sent to the applicant raises, the edit of    *)
(* the record to 'accepted' is still made; no exception leaves the handler.*)
NoticeFailureKeepsDecision ==
    [][/\ \A m \in Users :
            (/\ last'.kind = "mod_message" /\ last'.user = m
             /\ m \in DOMAIN PendingOf(bot_data)
             /\ NoticeFailed(out'))
                => /\ RecordEdited(out', "rejected_note", ModChat,
                                   PendingOf(bot_data)[m].original_message_id,
                                   PendingOf(bot_data)[m].user_id)
                   /\ m \notin DOMAIN PendingOf(bot_data')
                   /\ ~last'.raised
       /\ \A x \in Users :
            (/\ last'.kind = "callback" /\ last'.text = PressOf(ACCEPT, x)
             /\ Approvals(out') # {} /\ NoticeFailed(out'))
                => /\ RecordEdited(out', "accepted_note", last'.msg.chat,
                                   last'.msg.message_id, x)
                   /\ bot_data' = bot_data
                   /\ ~last'.raised]_vars

(* A reason text handled with the rejection raising: the record is edited  *)
(* and the slot is gone.                                                   *)
RejectionUndelivered ==
    /\ last.kind = "mod_message"
    /\ Len(out) = 2
    /\ IsRejection(out[1]) /\ ~out[1].ok
    /\ out[2].op = "edit_message_text" /\ out[2].text = "rejected_note" /\ out[2].ok
    /\ last.user \notin DOMAIN PendingOf(bot_data)

(* C14: a text message of a moderator with no pending slot changes no      *)
(* session and no pending slot, and no call is made.                       *)
IdleTextIgnored ==
    [][\A m \in Users :
         (/\ last'.kind = "mod_message" /\ last'.user = m
          /\ m \notin DOMAIN PendingOf(bot_data))
            => /\ user_data' = user_data
               /\ PendingOf(bot_data') = PendingOf(bot_data)
               /\ out' = <<>>]_vars

(* A text of an idle moderator handled while another moderator's rejection *)
(* is pending and an applicant's session is in progress.                   *)
IdleTextWhileOtherPending ==
    /\ last.kind = "mod_message"
    /\ out = <<>>
    /\ last.user \notin DOMAIN PendingOf(bot_data)
    /\ DOMAIN PendingOf(bot_data) # {}
    /\ \E u \in Users : Session(u) # EmptyDict

----------------------------------------------------------------------------
(* The order of the answers *)

(* The answer recorded for question k, <<>> when there is none. *)
AnswerAt(d, k) ==
    IF k \in Answered(d) THEN d[<<AGE_KEY, EXPERIENCE_KEY, FINANCE_KEY, SOURCE_KEY>>[k]]
    ELSE <<>>

(* C15: in every reachable state the answers recorded in an unsubmitted    *)
(* session are those of the questions 1..nextQuestion-1, and a text of an  *)
(* applicant only ever changes the answer the cursor points at.            *)
AnswersInOrder ==
    /\ [](\A u \in Users :
            ~Submitted(Session(u))
                => Answered(Session(u)) = 1..(Cursor(Session(u)) - 1))
    /\ [][\A u \in Users, k \in 1..N :
            AnswerAt(user_data'[u], k) # AnswerAt(user_data[u], k)
                => \/ last'.kind = "start" /\ last'.user = u
                   \/ TextOf(last', u) /\ k = Cursor(user_data[u])]_vars

----------------------------------------------------------------------------
(* Isolation of the identities *)

(* The slot of moderator m in bd is the one it has in bd2, or is absent in *)
(* both.                                                                   *)
SameSlot(bd, bd2, m) ==
    /\ (m \in DOMAIN PendingOf(bd)) = (m \in DOMAIN PendingOf(bd2))
    /\ m \in DOMAIN PendingOf(bd) => PendingOf(bd)[m] = PendingOf(bd2)[m]

(* C16: a /start or a text of applicant a changes no other applicant's     *)
(* session and no pending slot; a button press or a text of moderator m    *)
(* changes no other moderator's pending slot.                              *)
IdentitiesIsolated ==
    [][/\ \A a \in Users :
            (last'.kind \in {"start", "message"} /\ last'.user = a)
                => /\ \A b \in Users \ {a} : user_data'[b] = user_data[b]
                   /\ PendingOf(bot_data') = PendingOf(bot_data)
       /\ \A m \in Users :
            (last'.kind \in {"callback", "mod_message"} /\ last'.user = m)
                => \A o \in Users \ {m} : SameSlot(bot_data, bot_data', o)]_vars

(* The reason text of one moderator consumed while the slot of another     *)
(* moderator, for another applicant, stays pending.                        *)
ReasonBesideOtherSlot ==
    /\ last.kind = "mod_message"
    /\ Rejections(out) # {}
    /\ \E o \in Users \ {last.user} :
         /\ o \in DOMAIN PendingOf(bot_data)
         /\ PendingOf(bot_data)[o].user_id # out[1].chat

----------------------------------------------------------------------------
(* C17: between two /start commands of an applicant (and before the first) *)
(* the moderation record of that applicant is sent at most once, whatever  *)
(* texts are handled and whichever calls raise.                            *)
DispatchedAtMostOnce == \A u \in Users : hist[u].attempts <= 1

----------------------------------------------------------------------------
(* C18: in every reachable state an unsubmitted session has its cursor in  *)
(* 1..N (an absent cursor reading 1), no call carries the restart          *)
(* instruction, and a text of an applicant is answered with the reminder   *)
(* when the session was submitted and recorded as an answer otherwise.     *)
RestartUnreachable ==
    /\ \A u \in Users :
         ~Submitted(Session(u)) => Cursor(Session(u)) \in 1..N
    /\ \A i \in 1..Len(out) : out[i].text # "restart"
    /\ \A u \in Users :
         TextOf(last, u) =>
            IF last.submitted_before
            THEN Len(out) = 1 /\ out[1].text = "reminder"
            ELSE \E k \in 1..N : AnswerAt(Session(u), k) = Trimmed(last.text)

(* A text recorded as the last answer a second time, the session still     *)
(* unsubmitted with its cursor at N.                                       *)
LastAnswerRecordedAgain ==
    \E u \in Users :
        /\ TextOf(last, u) /\ ~last.submitted_before
        /\ hist[u].attempts = 2
        /\ ~Submitted(Session(u))
        /\ Cursor(Session(u)) = N

----------------------------------------------------------------------------
(* C19: a button press or a text of a moderator changes no session; a      *)
(* submitted session holds its N answers and is changed by no update but a *)
(* /start of its applicant, and a text of that applicant is answered with  *)
(* the reminder only.                                                      *)
DecisionKeepsSession ==
    [][/\ last'.kind \in {"callback", "mod_message"} => user_data' = user_data
       /\ \A u \in Users :
            (Submitted(user_data[u]) /\ ~(last'.kind = "start" /\ last'.user = u))
                => /\ user_data'[u] = user_data[u]
                   /\ Submitted(user_data'[u])
                   /\ Answered(user_data'[u]) = 1..N
                   /\ TextOf(last', u)
                        => /\ Len(out') = 1
                           /\ out'[1].chat = u /\ out'[1].text = "reminder"]_vars

(* The rejection of a submitted application notified: the session of the   *)
(* applicant is still submitted with its N answers.                        *)
RejectedStillSubmitted ==
    /\ last.kind = "mod_message"
    /\ Rejections(out) # {}
    /\ Submitted(Session(out[1].chat))
    /\ Answered(Session(out[1].chat)) = 1..N
    /\ hist[out[1].chat].delivered = 1

----------------------------------------------------------------------------
(* C20: a text of an applicant whose user_data is empty (no /start was     *)
(* handled for them, or the last one raised) is recorded, stripped, as the *)
(* answer to question 1 and the cursor moves to 2, the session reading as  *)
(* it does after a /start and that text; the prompt of question 2 is the   *)
(* call made.  Begun is the user_data a /start leaves.                     *)
Begun == Put(Put(EmptyDict, "next_question", 1), "application_submitted", FALSE)

TextWithoutSession ==
    [][\A u \in Users :
         (TextOf(last', u) /\ user_data[u] = EmptyDict)
            => /\ Put(user_data'[u], "application_submitted", FALSE)
                    = MessageResult(Begun, u, last'.text, TRUE, {}).ud
               /\ Answered(user_data'[u]) = {1}
               /\ AnswerAt(user_data'[u], 1) = Trimmed(last'.text)
               /\ Cursor(user_data'[u]) = 2
               /\ ~Submitted(user_data'[u])
               /\ Len(out') = 1
               /\ out'[1].chat = u /\ out'[1].text = "q2"]_vars

(* The first update ever handled is a text: it is recorded as answer 1. *)
FirstUpdateIsText ==
    \E u \in Users :
        /\ nEvents = 1
        /\ TextOf(last, u)
        /\ last.text = <<" ", "a", " ">>
        /\ AnswerAt(Session(u), 1) = <<"a">>
        /\ Cursor(Session(u)) = 2

----------------------------------------------------------------------------
(* C21: a rejection is sent only by the reason text of a moderator, to the *)
(* applicant of the last reject press of that moderator handled from the   *)
(* configured moderator chat; no such press gives rise to more than one    *)
(* rejection; the slot of a moderator is removed only by a text of that    *)
(* moderator and stored or replaced only by such a press of that moderator,*)
(* for the applicant the press names.                                      *)
RejectionsTraced ==
    /\ [](\A m \in Users :
            /\ mod_hist[m].notified <= 1
            /\ m \in DOMAIN PendingOf(bot_data)
                 => PendingOf(bot_data)[m].user_id = mod_hist[m].latest)
    /\ [][/\ last'.kind # "mod_message" => Rejections(out') = {}
          /\ \A m \in Users :
               (last'.kind = "mod_message" /\ last'.user = m)
                  => \A i \in Rejections(out') :
                        /\ mod_hist[m].latest \in Users
                        /\ out'[i].chat = mod_hist[m].latest
          /\ \A m \in Users :
               ~SameSlot(bot_data, bot_data', m)
                  => /\ last'.user = m
                     /\ IF m \in DOMAIN PendingOf(bot_data')
                        THEN /\ FromModChat(last', out')
                             /\ last'.text =
                                  PressOf(REJECT, PendingOf(bot_data')[m].user_id)
                        ELSE last'.kind = "mod_message"]_vars

(* Two moderators pressed reject for the same applicant; the reason text   *)
(* of one is sent, the slot of the other stays.                            *)
RejectedByTwoModerators ==
    /\ last.kind = "mod_message"
    /\ Rejections(out) # {}
    /\ mod_hist[last.user].notified = 1
    /\ \E o \in Users \ {last.user} :
         /\ o \in DOMAIN PendingOf(bot_data)
         /\ PendingOf(bot_data)[o].user_id = out[1].chat

====
